---- MODULE Spec2Model ----
(***************************************************************************)
(* Model of assets/js/github-stats.js: the GitHubStats class (URL parsing, *)
(* the timed cache inside fetchRepoData, README title extraction, number   *)
(* formatting, card rendering) and the init loop run on DOMContentLoaded.  *)
(*                                                                         *)
(* Text that the code looks inside (README bodies, base64 content,         *)
(* repository names) is a sequence of character codes.  Text the code only *)
(* copies (descriptions, language names) is an opaque literal.             *)
(***************************************************************************)
EXTENDS Integers, Sequences, FiniteSets, TLC

VARIABLES cards, dom, idx, pc, cache, now, ticks, call, repoReq, readmeReq,
          abandoned, result, last, prev, events, args, ret

\* args and ret are the arguments and the result of a method of the class
\* called on its own; an init run leaves them alone.
vars == <<cards, dom, idx, pc, cache, now, ticks, call, repoReq, readmeReq,
          abandoned, result, last, prev, events, args, ret>>

\* The variables of an init run.
runVars == <<cards, dom, idx, pc, cache, now, ticks, call, repoReq, readmeReq,
             abandoned, result, last, prev, events>>

-----------------------------------------------------------------------------
(* JavaScript values.  Distinct field names keep the kinds apart.          *)

Null == [js |-> "null"]
Undefined == [js |-> "undefined"]
Num(n) == [num |-> n]
Str(s) == [str |-> s]
Lit(s) == [lit |-> s]

IsNum(v) == DOMAIN v = {"num"}
IsStr(v) == DOMAIN v = {"str"}

\* JavaScript truthiness, as used by `if (x)` and `a && b`.
Truthy(v) ==
  /\ v # Null
  /\ v # Undefined
  /\ v # Str(<<>>)
  /\ v # Lit("")
  /\ v # Num(0)

-----------------------------------------------------------------------------
(* Bounds of the model.                                                    *)

\* Largest number of clock advances in one run.
MaxTicks == 2

-----------------------------------------------------------------------------
(* parseGitHubUrl.  A URL is a sequence of tokens: "/" is the slash, every *)
(* other token is a piece of text without a slash, and the token           *)
(* "github.com" is the text the regular expression looks for.              *)

Slash == "/"
HostMarker == "github.com"

\* End of the maximal run of non-slash tokens starting at p (p - 1 if empty).
RECURSIVE RunEnd(_, _)
RunEnd(url, p) ==
  IF p <= Len(url) /\ url[p] # Slash THEN RunEnd(url, p + 1) ELSE p - 1

\* /github\.com\/([^\/]+)\/([^\/]+)/ tried with the marker at position p.
UrlMatchAt(url, p) ==
  /\ p + 1 <= Len(url)
  /\ url[p] = HostMarker
  /\ url[p + 1] = Slash
  /\ LET oe == RunEnd(url, p + 2)
     IN /\ oe >= p + 2
        /\ oe + 1 <= Len(url)
        /\ url[oe + 1] = Slash
        /\ RunEnd(url, oe + 2) >= oe + 2

\* The match taken at the last position where the expression matches
\* instead of the first.
parseGitHubUrlLastMatch(url) ==
  LET ps == {p \in 1..Len(url) : UrlMatchAt(url, p)}
  IN IF ps = {} THEN Null
     ELSE LET p == CHOOSE q \in ps : \A r \in ps : q >= r
              oe == RunEnd(url, p + 2)
          IN [owner |-> SubSeq(url, p + 2, oe),
              repo |-> SubSeq(url, oe + 2, RunEnd(url, oe + 2))]

parseGitHubUrl(url) ==
  LET ps == {p \in 1..Len(url) : UrlMatchAt(url, p)}
  IN IF ps = {} THEN Null
     ELSE LET p == CHOOSE q \in ps : \A r \in ps : q <= r
              oe == RunEnd(url, p + 2)
          IN [owner |-> SubSeq(url, p + 2, oe),
              repo |-> SubSeq(url, oe + 2, RunEnd(url, oe + 2))]

\* The attribute selector [href*="github.com"].
HrefHasMarker(url) == \E p \in 1..Len(url) : url[p] = HostMarker

\* The key without the separator between owner and name.
CacheKeyNoSeparator(owner, repo) == owner \o repo

\* `${owner}/${repo}`
CacheKey(owner, repo) == owner \o <<Slash>> \o repo

-----------------------------------------------------------------------------
(* The cache: a Map from key to {data, timestamp}.                         *)

cacheExpiry == 5 * 60 * 1000

\* The validity test with the bound included: an entry exactly cacheExpiry
\* old still counts as valid.
CacheValidInclusive(c, key, t) ==
  /\ key \in DOMAIN c
  /\ t - c[key].timestamp <= cacheExpiry

\* The validity test with the comparison turned round.
CacheValidInverted(c, key, t) ==
  /\ key \in DOMAIN c
  /\ t - c[key].timestamp > cacheExpiry

\* `cached && Date.now() - cached.timestamp < this.cacheExpiry`
CacheValid(c, key, t) ==
  /\ key \in DOMAIN c
  /\ t - c[key].timestamp < cacheExpiry

\* this.cache.set(cacheKey, {data, timestamp: Date.now()})
CacheSet(c, key, data, t) ==
  [k \in DOMAIN c \cup {key} |->
     IF k = key THEN [data |-> data, timestamp |-> t] ELSE c[k]]

-----------------------------------------------------------------------------
(* Exceptions: an operation either returns a value or throws.              *)

Return(v) == [thrown |-> FALSE, value |-> v]
Throw == [thrown |-> TRUE]

-----------------------------------------------------------------------------
(* atob: the platform's forgiving base64 decoder, on character codes.      *)

\* String(x) for the argument of atob: "undefined" and "null" for the two
\* non-string values a JSON field can hand over.
JsToString(v) ==
  IF IsStr(v) THEN v.str
  ELSE IF v = Undefined THEN <<117, 110, 100, 101, 102, 105, 110, 101, 100>>
  ELSE <<110, 117, 108, 108>>

IsAsciiWs(c) == c \in {9, 10, 12, 13, 32}

\* Value of a base64 alphabet character, -1 for any other character.
B64Val(c) ==
  IF c >= 65 /\ c <= 90 THEN c - 65
  ELSE IF c >= 97 /\ c <= 122 THEN c - 71
  ELSE IF c >= 48 /\ c <= 57 THEN c + 4
  ELSE IF c = 43 THEN 62
  ELSE IF c = 47 THEN 63
  ELSE -1

\* Trailing "=" padding is dropped only when the length is a multiple of 4.
StripPadding(s) ==
  IF Len(s) > 0 /\ Len(s) % 4 = 0
  THEN IF s[Len(s)] = 61 /\ s[Len(s) - 1] = 61 THEN SubSeq(s, 1, Len(s) - 2)
       ELSE IF s[Len(s)] = 61 THEN SubSeq(s, 1, Len(s) - 1)
       ELSE s
  ELSE s

\* Sextets to bytes; the bits left over by a short final group are dropped.
RECURSIVE B64Bytes(_)
B64Bytes(v) ==
  IF Len(v) >= 4
  THEN LET n == v[1] * 262144 + v[2] * 4096 + v[3] * 64 + v[4]
       IN <<n \div 65536, (n \div 256) % 256, n % 256>>
            \o B64Bytes(SubSeq(v, 5, Len(v)))
  ELSE IF Len(v) = 3
  THEN LET n == (v[1] * 4096 + v[2] * 64 + v[3]) \div 4
       IN <<n \div 256, n % 256>>
  ELSE IF Len(v) = 2
  THEN <<(v[1] * 64 + v[2]) \div 16>>
  ELSE <<>>

atob(arg) ==
  LET s == StripPadding(SelectSeq(JsToString(arg), LAMBDA c : ~IsAsciiWs(c)))
  IN IF Len(s) % 4 = 1 \/ \E i \in 1..Len(s) : B64Val(s[i]) < 0
     THEN Throw
     ELSE Return(B64Bytes([i \in 1..Len(s) |-> B64Val(s[i])]))

-----------------------------------------------------------------------------
(* extractReadmeTitle: the two regular expressions, on character codes.    *)

\* \s of a regular expression and the characters String.trim removes.
IsWs(c) == c \in {9, 10, 11, 12, 13, 32, 160}
\* Line terminators: what `.` refuses and what ^ and $ anchor on with /m.
IsLineTerminator(c) == c \in {10, 13}

RECURSIVE TrimLeft(_)
TrimLeft(s) ==
  IF Len(s) > 0 /\ IsWs(s[1]) THEN TrimLeft(Tail(s)) ELSE s

RECURSIVE TrimRight(_)
TrimRight(s) ==
  IF Len(s) > 0 /\ IsWs(s[Len(s)]) THEN TrimRight(SubSeq(s, 1, Len(s) - 1))
  ELSE s

\* String.prototype.trim
Trim(s) == TrimRight(TrimLeft(s))

\* Last position of the run of characters starting at p that are not in
\* the set stop (p - 1 if the run is empty).
RECURSIVE SpanEnd(_, _, _)
SpanEnd(t, p, stop) ==
  IF p <= Len(t) /\ t[p] \notin stop THEN SpanEnd(t, p + 1, stop) ELSE p - 1

\* The lengths k of `\s+` after the `#` at p that let `(.+)$` match: k
\* whitespace characters followed by a character `.` accepts.
MdRuns(t, p) ==
  {k \in 1..(Len(t) - p) :
     /\ \A i \in (p + 1)..(p + k) : IsWs(t[i])
     /\ p + k + 1 <= Len(t)
     /\ ~IsLineTerminator(t[p + k + 1])}

\* /^#\s+(.+)$/m tried at position p.
MdMatchAt(t, p) ==
  /\ p <= Len(t)
  /\ p = 1 \/ IsLineTerminator(t[p - 1])
  /\ t[p] = 35
  /\ MdRuns(t, p) # {}

\* The capture of /^#\s+(.+)$/m at p: `\s+` is greedy, `(.+)` runs to the
\* end of its line.
MdCapture(t, p) ==
  LET k == CHOOSE k \in MdRuns(t, p) : \A j \in MdRuns(t, p) : j <= k
      s == p + k + 1
  IN SubSeq(t, s, SpanEnd(t, s, {10, 13}))

IsH(c) == c \in {104, 72}

\* Position of the `>` closing the tag opened by `<h1` at p (0 if none).
H1TagEnd(t, p) ==
  LET q == SpanEnd(t, p + 3, {62}) + 1
  IN IF q <= Len(t) THEN q ELSE 0

\* /<h1[^>]*>([^<]+)<\/h1>/i tried at position p.
H1MatchAt(t, p) ==
  /\ p + 2 <= Len(t)
  /\ t[p] = 60 /\ IsH(t[p + 1]) /\ t[p + 2] = 49
  /\ LET q == H1TagEnd(t, p)
         e == SpanEnd(t, q + 1, {60})
     IN /\ q > 0
        /\ e >= q + 1
        /\ e + 5 <= Len(t)
        /\ t[e + 1] = 60 /\ t[e + 2] = 47 /\ IsH(t[e + 3])
        /\ t[e + 4] = 49 /\ t[e + 5] = 62

H1Capture(t, p) ==
  LET q == H1TagEnd(t, p)
  IN SubSeq(t, q + 1, SpanEnd(t, q + 1, {60}))

\* The title of a decoded README text.
TitleOfText(t) ==
  LET md == {p \in 1..Len(t) : MdMatchAt(t, p)}
      h1 == {p \in 1..Len(t) : H1MatchAt(t, p)}
  IN IF md # {}
     THEN Str(Trim(MdCapture(t, CHOOSE p \in md : \A r \in md : p <= r)))
     ELSE IF h1 # {}
     THEN Str(Trim(H1Capture(t, CHOOSE p \in h1 : \A r \in h1 : p <= r)))
     ELSE Null

\* Never throws: a decoding failure is caught and gives null.
extractReadmeTitle(base64Content) ==
  LET content == atob(base64Content)
  IN IF content.thrown THEN Null ELSE TitleOfText(content.value)

-----------------------------------------------------------------------------
(* formatNumber.  (num / d).toFixed(1) is the tenths count n for which     *)
(* n / 10 is nearest to the double num / d, the larger n on an exact tie.  *)

\* 2^s mod 5
Pow2Mod5(s) == CASE s % 4 = 0 -> 1 [] s % 4 = 1 -> 2 [] s % 4 = 2 -> 4
                 [] OTHER -> 3

\* The largest e with 5 * 2^e <= n, for n >= 5.
RECURSIVE Log2Fifth(_)
Log2Fifth(n) == IF n < 10 THEN 0 ELSE 1 + Log2Fifth(n \div 2)

\* The sign of double(n / 20) - n / 20 for odd n >= 5: the 53-bit
\* significand of n / 5 is rounded to nearest, and the discarded part is
\* r / 5 of a unit with r = n * 2^s mod 5.
DoubleErrorSign(n) ==
  LET s == 52 - Log2Fifth(n)
      r == ((n % 5) * Pow2Mod5(s)) % 5
  IN IF r = 0 THEN 0 ELSE IF r <= 2 THEN -1 ELSE 1

\* Number of tenths printed by (num / d).toFixed(1), d in {1000, 1000000}.
ToFixed1(num, d) ==
  LET n0 == (num * 10) \div d
      rem == (num * 10) % d
  IN IF 2 * rem < d THEN n0
     ELSE IF 2 * rem > d THEN n0 + 1
     ELSE IF DoubleErrorSign(2 * n0 + 1) >= 0 THEN n0 + 1 ELSE n0

Tenths(n, suffix) ==
  ToString(n \div 10) \o "." \o ToString(n % 10) \o suffix

\* The argument is a JavaScript value; null.toString() throws.
formatNumber(num) ==
  IF ~IsNum(num) THEN Throw
  ELSE IF num.num >= 1000000 THEN Return(Tenths(ToFixed1(num.num, 1000000), "M"))
  ELSE IF num.num >= 1000 THEN Return(Tenths(ToFixed1(num.num, 1000), "k"))
  ELSE Return(ToString(num.num))

-----------------------------------------------------------------------------
(* Card rendering: updateProjectCard and createStatsElement.               *)

IsWordChar(c) ==
  \/ c >= 48 /\ c <= 57
  \/ c >= 65 /\ c <= 90
  \/ c >= 97 /\ c <= 122
  \/ c = 95

\* name.replace(/-/g, ' ').replace(/\b\w/g, l => l.toUpperCase())
FormatName(name) ==
  LET spaced == [i \in 1..Len(name) |-> IF name[i] = 45 THEN 32 ELSE name[i]]
  IN [i \in 1..Len(spaced) |->
        IF /\ IsWordChar(spaced[i])
           /\ i = 1 \/ ~IsWordChar(spaced[i - 1])
           /\ spaced[i] >= 97 /\ spaced[i] <= 122
        THEN spaced[i] - 32
        ELSE spaced[i]]

\* One <span class="stat-item"> of the stats block.
StatItem(kind, text) == [stat |-> kind, text |-> text]

\* The stats element, or the exception formatNumber raises on a count that
\* is present but not a number.
createStatsElement(data) ==
  LET stars == formatNumber(data.stargazers_count)
      forks == formatNumber(data.forks_count)
      hasStars == data.stargazers_count # Undefined
      hasForks == data.forks_count # Undefined
  IN IF (hasStars /\ stars.thrown) \/ (hasForks /\ forks.thrown) THEN Throw
     ELSE Return([el |-> "stats",
                  items |->
                    (IF hasStars THEN <<StatItem("stars", Lit(stars.value))>>
                     ELSE <<>>)
                    \o (IF hasForks
                        THEN <<StatItem("forks", Lit(forks.value))>>
                        ELSE <<>>)
                    \o (IF Truthy(data.language)
                        THEN <<StatItem("language", data.language)>>
                        ELSE <<>>)])

\* The title shown for a repository.
ProjectName(data) ==
  IF Truthy(data.readmeTitle) THEN data.readmeTitle
  ELSE IF Truthy(data.name) THEN Str(FormatName(data.name.str))
  ELSE Lit("Unknown Project")

\* updateProjectCard on the card's elements d (title, desc, meta); card says
\* which elements the card has.  Returns the elements as the call leaves
\* them and whether it threw: the stats are built after the title, the
\* description and the emptying of the stats container.
updateProjectCard(card, d, data) ==
  LET d1 == IF card.hasTitle /\ Truthy(data)
            THEN [d EXCEPT !.title = ProjectName(data)] ELSE d
      d2 == IF card.hasDesc /\ Truthy(data.description)
            THEN [d1 EXCEPT !.desc = data.description]
            ELSE IF card.hasDesc
            THEN [d1 EXCEPT !.desc = Lit("No description available.")]
            ELSE d1
      stats == createStatsElement(data)
  IN IF ~card.hasMeta THEN [thrown |-> FALSE, dom |-> d2]
     ELSE IF stats.thrown
     THEN [thrown |-> TRUE, dom |-> [d2 EXCEPT !.meta = <<>>]]
     ELSE [thrown |-> FALSE, dom |-> [d2 EXCEPT !.meta = <<stats.value>>]]

\* createLoadingElement
LoadingEl == [el |-> "loading"]

\* loadingEl.parentNode.removeChild(loadingEl), when it has a parent.
RemoveLoading(meta) == SelectSeq(meta, LAMBDA e : e # LoadingEl)

-----------------------------------------------------------------------------
(* The page and the network: the inputs of a run.                          *)

UrlWidget == <<"https:", "/", "/", "github.com", "/", "acme", "/", "widget">>
UrlWidgetTree == UrlWidget \o <<"/", "tree", "/", "main">>
UrlGadget == <<"https:", "/", "/", "github.com", "/", "acme", "/", "gadget">>
UrlNoRepo == <<"https:", "/", "/", "github.com", "/", "acme">>
UrlElsewhere == <<"https:", "/", "/", "example.com", "/", "acme", "/", "widget">>

\* A card: the href of its project link and the elements it has.
Card(href, hasTitle, hasDesc, hasMeta) ==
  [href |-> href, hasTitle |-> hasTitle, hasDesc |-> hasDesc,
   hasMeta |-> hasMeta]

CardWidget == Card(UrlWidget, TRUE, TRUE, TRUE)
CardWidgetTree == Card(UrlWidgetTree, TRUE, TRUE, FALSE)
CardGadget == Card(UrlGadget, FALSE, FALSE, TRUE)
CardNoRepo == Card(UrlNoRepo, TRUE, TRUE, TRUE)
CardElsewhere == Card(UrlElsewhere, TRUE, TRUE, TRUE)

\* The pages: the same repository three times, two repositories with a
\* card whose link does not parse between them, and a page that starts with
\* a card without a link to the hosting service.
Pages ==
  {<<CardWidget, CardWidgetTree, CardWidget>>,
   <<CardGadget, CardNoRepo, CardWidgetTree>>,
   <<CardElsewhere, CardWidget>>}

\* The markup a card has before the script touches it.
OrigChild == [el |-> "original"]
InitialDom(card) ==
  [title |-> Lit("Static title"), desc |-> Lit("Static description"),
   meta |-> IF card.hasMeta THEN <<OrigChild>> ELSE <<>>]

\* "my-widget"
NameMyWidget == <<109, 121, 45, 119, 105, 100, 103, 101, 116>>

RepoBody(name, description, stars, forks, language) ==
  [name |-> name, description |-> description, stargazers_count |-> stars,
   forks_count |-> forks, language |-> language, readmeTitle |-> Undefined]

\* Bodies of the metadata resource: a full record, and a record without
\* the optional fields whose star count is null.
RepoBodies ==
  {RepoBody(Str(NameMyWidget), Lit("A widget"), Num(42), Num(2500), Lit("JS")),
   RepoBody(Undefined, Null, Null, Undefined, Null)}

\* A response: its status and what response.json() gives.
Response(status, json) == [status |-> status, json |-> json]
\* response.ok
IsOk(resp) == resp.status >= 200 /\ resp.status <= 299

RepoResponses ==
  {Response(200, Return(b)) : b \in RepoBodies}
    \cup {Response(200, Throw), Response(403, Throw), Response(404, Throw)}

\* base64 of "# Widget Project\nbody", and text that is not base64.
ContentHeading ==
  Str(<<73, 121, 66, 88, 97, 87, 82, 110, 90, 88, 81, 103, 85, 72, 74, 118, 97, 109, 86, 106, 100, 65, 112, 105, 98, 50, 82, 53>>)
ContentInvalid == Str(<<33, 33, 33>>)

ReadmeResponses ==
  {Response(200, Return([content |-> c])) :
     c \in {ContentHeading, ContentInvalid}}
    \cup {Response(200, Throw), Response(404, Throw)}

\* A request: not issued, in flight, or settled.
Idle == [st |-> "idle"]
Pending == [st |-> "pending"]
Fulfilled(resp) == [st |-> "fulfilled", resp |-> resp]
Rejected == [st |-> "rejected"]

\* Clock advances between two steps of the script, in milliseconds.
TickDeltas == {1, cacheExpiry - 1}

-----------------------------------------------------------------------------
(* fetchRepoData after the joint await of the two requests.                *)

\* Promise.all settles once both requests are fulfilled, or as soon as one
\* of them is rejected.
PromiseAllSettled(repo, readme) ==
  \/ repo.st = "rejected"
  \/ readme.st = "rejected"
  \/ repo.st = "fulfilled" /\ readme.st = "fulfilled"

PromiseAllRejected(repo, readme) ==
  repo.st = "rejected" \/ readme.st = "rejected"

\* The README title: every failure on this path is caught where it happens.
ReadmeTitleOf(resp) ==
  IF ~IsOk(resp) THEN Null
  ELSE IF resp.json.thrown THEN Null
  ELSE IF resp.json.value = Null THEN Null
  ELSE extractReadmeTitle(resp.json.value.content)

\* How a run of the try block ends: by an exception, or by a return with
\* the value, whether it was stored in the cache, the warnings logged and
\* the bodies read with json().
Outcome(thrown, value, store, warns, decodes) ==
  [thrown |-> thrown, value |-> value, store |-> store, warns |-> warns,
   decodes |-> decodes, errors |-> 0]

\* The try block from the joint await on.
FetchTry(repo, readme) ==
  IF PromiseAllRejected(repo, readme) THEN Outcome(TRUE, Null, FALSE, 0, 0)
  ELSE IF ~IsOk(repo.resp)
  THEN IF repo.resp.status = 403 THEN Outcome(FALSE, Null, FALSE, 1, 0)
       ELSE Outcome(TRUE, Null, FALSE, 0, 0)
  ELSE IF repo.resp.json.thrown THEN Outcome(TRUE, Null, FALSE, 0, 1)
  ELSE Outcome(FALSE,
               [repo.resp.json.value EXCEPT
                  !.readmeTitle = ReadmeTitleOf(readme.resp)],
               TRUE, 0,
               IF IsOk(readme.resp) THEN 2 ELSE 1)

\* No catch clause: the exception reaches the caller.
FetchCatchRethrow(out) == out

\* A catch clause that also caches the null it returns.
FetchCatchStoring(out) ==
  IF out.thrown
  THEN [out EXCEPT !.thrown = FALSE, !.value = Null, !.errors = 1,
                   !.store = TRUE]
  ELSE out

\* The catch clause of fetchRepoData: log an error, return null.
FetchCatch(out) ==
  IF out.thrown
  THEN [out EXCEPT !.thrown = FALSE, !.value = Null, !.errors = 1]
  ELSE out

fetchRepoDataResume(repo, readme) == FetchCatch(FetchTry(repo, readme))

-----------------------------------------------------------------------------
(* init: what the loop body does with a card once the fetch has settled.   *)

NoResult == [none |-> TRUE]
NoCall == [card |-> 0]

HasLoading(meta) == \E i \in 1..Len(meta) : meta[i] = LoadingEl

\* if (data && metaDiv)
ShouldRender(card, data) == Truthy(data) /\ card.hasMeta

\* The loop body with the loading element removed only when data came
\* back.
InitAfterFetchKeepOnNull(card, d, res) ==
  LET removed == [d EXCEPT !.meta = RemoveLoading(d.meta)]
      ev == IF HasLoading(d.meta) THEN <<"remove">> ELSE <<>>
  IN IF ~res.thrown /\ ShouldRender(card, res.value)
     THEN LET u == updateProjectCard(card, removed, res.value)
          IN [dom |-> [u.dom EXCEPT !.meta = RemoveLoading(u.dom.meta)],
              events |-> ev \o <<"render">>]
     ELSE [dom |-> d, events |-> <<>>]

\* The loop body rendering first and removing the loading element after.
InitAfterFetchRenderFirst(card, d, res) ==
  LET removed == [d EXCEPT !.meta = RemoveLoading(d.meta)]
      ev == IF HasLoading(d.meta) THEN <<"remove">> ELSE <<>>
  IN IF ~res.thrown /\ ShouldRender(card, res.value)
     THEN LET u == updateProjectCard(card, d, res.value)
          IN [dom |-> [u.dom EXCEPT !.meta = RemoveLoading(u.dom.meta)],
              events |-> <<"render">> \o ev]
     ELSE [dom |-> removed, events |-> ev]

\* The loop body emptying the stats container to take the loading element
\* out.
InitAfterFetchClear(card, d, res) ==
  LET cleared == [d EXCEPT !.meta = <<>>]
      ev == IF HasLoading(d.meta) THEN <<"remove">> ELSE <<>>
  IN IF ~res.thrown /\ ShouldRender(card, res.value)
     THEN LET u == updateProjectCard(card, cleared, res.value)
          IN [dom |-> u.dom, events |-> ev \o <<"render">>]
     ELSE [dom |-> cleared, events |-> ev]

\* The rest of the try block and the catch clause of the loop body, for
\* the result res of the awaited fetch.  Gives the card's elements and the
\* events in the order they happen.
InitAfterFetch(card, d, res) ==
  LET removed == [d EXCEPT !.meta = RemoveLoading(d.meta)]
      ev == IF HasLoading(d.meta) THEN <<"remove">> ELSE <<>>
  IN IF res.thrown THEN [dom |-> removed, events |-> ev]
     ELSE IF ShouldRender(card, res.value)
     THEN LET u == updateProjectCard(card, removed, res.value)
          IN [dom |-> [u.dom EXCEPT !.meta = RemoveLoading(u.dom.meta)],
              events |-> ev \o <<"render">>]
     ELSE [dom |-> removed, events |-> ev]

-----------------------------------------------------------------------------
(* The state machine: one init run over the cards of the page.             *)

Init ==
  /\ cards \in Pages
  /\ dom = [i \in 1..Len(cards) |-> InitialDom(cards[i])]
  /\ idx = 1
  /\ pc = "loop"
  /\ cache = <<>>
  /\ now = 0
  /\ ticks = 0
  /\ call = NoCall
  /\ repoReq = Idle
  /\ readmeReq = Idle
  /\ abandoned = {}
  /\ result = NoResult
  /\ last = NoCall
  /\ prev = <<>>
  /\ events = <<>>
  /\ args = <<>>
  /\ ret = <<>>

\* The card has a link to the hosting service that parses.
Parses(card) ==
  HrefHasMarker(card.href) /\ parseGitHubUrl(card.href) # Null

KeyOf(card) ==
  CacheKey(parseGitHubUrl(card.href).owner, parseGitHubUrl(card.href).repo)

Event(i, names) == [k \in 1..Len(names) |-> <<i, names[k]>>]

\* History of the calls of fetchRepoData, kept for the properties: last is
\* the call that completed most recently (until the next call goes to the
\* network), with the cache as it found it and a summary (prior) of the
\* call for the same key that completed before it;
\* prev maps each key to the summary of its most recent completed call,
\* with the record returned by the most recent call for the key that
\* returned one (lastOk, null if there is none).
NoPrior == [none |-> TRUE]

CallSummary(key, start, hit, out) ==
  [start |-> start, end |-> now, hit |-> hit, thrown |-> out.thrown,
   value |-> out.value,
   lastOk |-> IF out.value # Null THEN out.value
              ELSE IF key \in DOMAIN prev THEN prev[key].lastOk
              ELSE Null]

CallRecord(i, key, start, hit, repo, readme, out) ==
  [card |-> i, key |-> key, start |-> start, end |-> now, hit |-> hit,
   repo |-> repo, readme |-> readme, thrown |-> out.thrown,
   value |-> out.value, stored |-> out.store, warns |-> out.warns,
   errors |-> out.errors, decodes |-> out.decodes, before |-> cache,
   prior |-> IF key \in DOMAIN prev THEN prev[key] ELSE NoPrior]

Remember(key, start, hit, out) ==
  [k \in DOMAIN prev \cup {key} |->
     IF k = key THEN CallSummary(key, start, hit, out) ELSE prev[k]]

\* A card without a usable link: `continue`.
SkipCard ==
  /\ pc = "loop"
  /\ idx <= Len(cards)
  /\ ~Parses(cards[idx])
  /\ idx' = idx + 1
  /\ UNCHANGED <<cards, dom, pc, cache, now, ticks, call, repoReq, readmeReq,
                 result, last, prev, events>>
  /\ UNCHANGED <<abandoned, args, ret>>

\* The loop body up to its await: the loading element goes into the stats
\* container, fetchRepoData reads the cache and either returns the cached
\* data or issues the two requests.
StartCard ==
  /\ pc = "loop"
  /\ idx <= Len(cards)
  /\ Parses(cards[idx])
  /\ LET card == cards[idx]
         key == KeyOf(card)
         ins == IF card.hasMeta THEN <<"insert">> ELSE <<>>
     IN /\ dom' = IF card.hasMeta
                  THEN [dom EXCEPT ![idx].meta = Append(@, LoadingEl)]
                  ELSE dom
        /\ IF CacheValid(cache, key, now)
           THEN /\ pc' = "fetched"
                /\ result' = Return(cache[key].data)
                /\ last' = CallRecord(idx, key, now, TRUE, Idle, Idle,
                     Outcome(FALSE, cache[key].data, FALSE, 0, 0))
                /\ prev' = Remember(key, now, TRUE,
                     Outcome(FALSE, cache[key].data, FALSE, 0, 0))
                /\ events' = events
                     \o Event(idx, ins \o <<"fetchStart", "fetchEnd">>)
                /\ UNCHANGED <<call, repoReq, readmeReq>>
           ELSE /\ pc' = "awaiting"
                /\ call' = [card |-> idx, key |-> key, start |-> now]
                /\ repoReq' = Pending
                /\ readmeReq' = Pending
                /\ events' = events \o Event(idx, ins \o <<"fetchStart">>)
                /\ last' = NoCall
                /\ UNCHANGED <<result, prev>>
  /\ UNCHANGED <<cards, idx, cache, now, ticks>>
  /\ UNCHANGED <<abandoned, args, ret>>

\* The metadata request settles.
SettleRepo ==
  /\ repoReq = Pending
  /\ \E o \in {Fulfilled(r) : r \in RepoResponses} \cup {Rejected} :
       repoReq' = o
  /\ UNCHANGED <<cards, dom, idx, pc, cache, now, ticks, call, readmeReq,
                 result, last, prev, events>>
  /\ UNCHANGED <<abandoned, args, ret>>

\* The readme request settles.
SettleReadme ==
  /\ readmeReq = Pending
  /\ \E o \in {Fulfilled(r) : r \in ReadmeResponses} \cup {Rejected} :
       readmeReq' = o
  /\ UNCHANGED <<cards, dom, idx, pc, cache, now, ticks, call, repoReq,
                 result, last, prev, events>>
  /\ UNCHANGED <<abandoned, args, ret>>

\* fetchRepoData issuing the two requests once more when the attempt
\* produced nothing.
ResumeFetchRetry ==
  /\ pc = "awaiting"
  /\ PromiseAllSettled(repoReq, readmeReq)
  /\ LET out == fetchRepoDataResume(repoReq, readmeReq)
     IN IF out.value = Null /\ repoReq # Pending /\ readmeReq # Pending
        THEN /\ repoReq' = Pending
             /\ readmeReq' = Pending
             /\ UNCHANGED <<cache, result, last, prev, pc, events>>
        ELSE /\ cache' = IF out.store
                         THEN CacheSet(cache, call.key, out.value, now)
                         ELSE cache
             /\ result' = IF out.thrown THEN Throw ELSE Return(out.value)
             /\ last' = CallRecord(call.card, call.key, call.start, FALSE,
                                   repoReq, readmeReq, out)
             /\ prev' = Remember(call.key, call.start, FALSE, out)
             /\ pc' = "fetched"
             /\ events' = events \o Event(idx, <<"fetchEnd">>)
             /\ UNCHANGED <<repoReq, readmeReq>>
  /\ UNCHANGED <<cards, dom, idx, now, ticks, call>>
  /\ UNCHANGED <<abandoned, args, ret>>

\* fetchRepoData falling back, when the attempt produced nothing, on the
\* entry it found under the key, expired as it is.
ResumeFetchStale ==
  /\ pc = "awaiting"
  /\ PromiseAllSettled(repoReq, readmeReq)
  /\ LET got == fetchRepoDataResume(repoReq, readmeReq)
         out == IF got.value = Null /\ call.key \in DOMAIN cache
                THEN [got EXCEPT !.value = cache[call.key].data]
                ELSE got
     IN /\ cache' = IF out.store
                    THEN CacheSet(cache, call.key, out.value, now)
                    ELSE cache
        /\ result' = IF out.thrown THEN Throw ELSE Return(out.value)
        /\ last' = CallRecord(call.card, call.key, call.start, FALSE,
                              repoReq, readmeReq, out)
        /\ prev' = Remember(call.key, call.start, FALSE, out)
  /\ pc' = "fetched"
  /\ events' = events \o Event(idx, <<"fetchEnd">>)
  /\ UNCHANGED <<cards, dom, idx, now, ticks, call, repoReq, readmeReq>>
  /\ UNCHANGED <<abandoned, args, ret>>

\* fetchRepoData resumes after `await Promise.all(...)` and runs to its
\* return.
ResumeFetch ==
  /\ pc = "awaiting"
  /\ PromiseAllSettled(repoReq, readmeReq)
  /\ LET out == fetchRepoDataResume(repoReq, readmeReq)
     IN /\ cache' = IF out.store
                    THEN CacheSet(cache, call.key, out.value, now)
                    ELSE cache
        /\ result' = IF out.thrown THEN Throw ELSE Return(out.value)
        /\ last' = CallRecord(call.card, call.key, call.start, FALSE,
                              repoReq, readmeReq, out)
        /\ prev' = Remember(call.key, call.start, FALSE, out)
  /\ pc' = "fetched"
  /\ events' = events \o Event(idx, <<"fetchEnd">>)
  /\ UNCHANGED <<cards, dom, idx, now, ticks, call, repoReq, readmeReq>>
  /\ UNCHANGED <<abandoned, args, ret>>

\* The requests of the call that has returned which have not settled: the
\* call went on when the other request was rejected, and nothing waits for
\* them any more.
StillPending ==
  {[key |-> call.key, req |-> r] :
     r \in {q \in {"repo"} : pc = "fetched" /\ repoReq = Pending}
            \cup {q \in {"readme"} : pc = "fetched" /\ readmeReq = Pending}}

\* The loop body leaving the loop when the fetch returned nothing: init
\* stops at the first card that fails.
FinishCardStopOnFailure ==
  /\ pc = "fetched"
  /\ LET r == InitAfterFetch(cards[idx], dom[idx], result)
     IN /\ dom' = [dom EXCEPT ![idx] = r.dom]
        /\ events' = events \o Event(idx, r.events \o <<"end">>)
  /\ idx' = idx + 1
  /\ pc' = IF Truthy(result.value) THEN "loop" ELSE "done"
  /\ call' = NoCall
  /\ repoReq' = Idle
  /\ readmeReq' = Idle
  /\ abandoned' = abandoned \cup StillPending
  /\ result' = NoResult
  /\ UNCHANGED <<cards, cache, now, ticks, last, prev>>
  /\ UNCHANGED <<args, ret>>

\* The loop body resumes after `await this.fetchRepoData(...)` and runs to
\* the end of the iteration.
FinishCard ==
  /\ pc = "fetched"
  /\ LET r == InitAfterFetch(cards[idx], dom[idx], result)
     IN /\ dom' = [dom EXCEPT ![idx] = r.dom]
        /\ events' = events \o Event(idx, r.events \o <<"end">>)
  /\ idx' = idx + 1
  /\ pc' = "loop"
  /\ call' = NoCall
  /\ repoReq' = Idle
  /\ readmeReq' = Idle
  /\ abandoned' = abandoned \cup StillPending
  /\ result' = NoResult
  /\ UNCHANGED <<cards, cache, now, ticks, last, prev>>
  /\ UNCHANGED <<args, ret>>

\* A request that nothing waits for settles; its response is dropped.
SettleAbandoned ==
  /\ \E r \in abandoned : abandoned' = abandoned \ {r}
  /\ UNCHANGED <<cards, dom, idx, pc, cache, now, ticks, call, repoReq,
                 readmeReq, result, last, prev, events, args, ret>>

\* init returns after the last card.
InitDone ==
  /\ pc = "loop"
  /\ idx > Len(cards)
  /\ pc' = "done"
  /\ UNCHANGED <<cards, dom, idx, cache, now, ticks, call, repoReq,
                 readmeReq, result, last, prev, events>>
  /\ UNCHANGED <<abandoned, args, ret>>

\* Time passes.  Date.now() is read at the cache check and at cache.set
\* only, so the clock is advanced before a card with a usable link is
\* started and while its two requests are in flight: time that passes
\* anywhere else shows at the next of these reads.
Tick ==
  /\ \/ pc = "loop" /\ idx <= Len(cards) /\ Parses(cards[idx])
     \/ pc = "awaiting" /\ repoReq = Pending /\ readmeReq = Pending
  /\ ticks < MaxTicks
  /\ \E d \in TickDeltas : now' = now + d
  /\ ticks' = ticks + 1
  /\ UNCHANGED <<cards, dom, idx, pc, cache, call, repoReq, readmeReq,
                 result, last, prev, events>>
  /\ UNCHANGED <<abandoned, args, ret>>

Next ==
  \/ SkipCard
  \/ StartCard
  \/ SettleRepo
  \/ SettleReadme
  \/ ResumeFetch
  \/ FinishCard
  \/ SettleAbandoned
  \/ InitDone
  \/ Tick

Spec == Init /\ [][Next]_vars

-----------------------------------------------------------------------------
(* Properties.  A call of fetchRepoData has completed when last.card > 0;  *)
(* the processing of card i has ended when i < idx.                        *)

Completed == last.card > 0
\* The completed call went to the network (it did not return cached data).
Fetched == Completed /\ ~last.hit
\* The cache entry the completed call found for its key.
HadEntry == Completed /\ last.key \in DOMAIN last.before
FoundEntry == last.before[last.key]

\* C1: a payload stored at time T is served from the cache by a call at
\* time t when t < T + ttl and is a miss when t >= T + ttl (the call then
\* goes to the network); a call that finds no entry is a miss; and a
\* successful fetch stores its record with the time of the store, so the
\* window starts again.
C1_TtlCache ==
  Completed =>
    /\ (HadEntry /\ last.start < FoundEntry.timestamp + cacheExpiry)
         => /\ last.hit
            /\ last.value = FoundEntry.data
            /\ last.repo = Idle /\ last.readme = Idle
    /\ (HadEntry /\ last.start >= FoundEntry.timestamp + cacheExpiry)
         => /\ ~last.hit
            /\ last.repo # Idle /\ last.readme # Idle
    /\ ~HadEntry => ~last.hit
    /\ (Fetched /\ last.value # Null)
         => /\ last.key \in DOMAIN cache
            /\ cache[last.key] = [data |-> last.value, timestamp |-> last.end]

\* C1 witness: a call made exactly ttl after the store found the entry
\* expired, fetched again and stored the new record with a new timestamp.
C1_Witness ==
  /\ HadEntry
  /\ last.start = FoundEntry.timestamp + cacheExpiry
  /\ ~last.hit
  /\ last.value # Null
  /\ cache[last.key].timestamp = last.end
  /\ pc = "fetched"

\* The two calls of C2: the completed call and the call for the same key
\* before it, which went to the network, the second starting within ttl of
\* the end of the first.
TwoCallsInWindow ==
  /\ Completed
  /\ last.prior # NoPrior
  /\ ~last.prior.hit
  /\ last.start < last.prior.end + cacheExpiry

SecondServedFromCache ==
  /\ last.hit
  /\ last.repo = Idle /\ last.readme = Idle
  /\ last.value = last.prior.value

\* C2 as stated: of two calls for the same key, the second within the ttl
\* window of the first, only the first goes to the network and the second
\* returns what the first returned.
C2_AsStated == TwoCallsInWindow => SecondServedFromCache

\* C2 amended: the same, when the first call returned a record.
C2_Idempotent ==
  (TwoCallsInWindow /\ last.prior.value # Null) => SecondServedFromCache

\* C2 witness: the second call starts in the last millisecond of the window
\* of a first call that returned a record.
C2_Witness ==
  /\ TwoCallsInWindow
  /\ last.prior.value # Null
  /\ last.start = last.prior.end + cacheExpiry - 1
  /\ last.hit

\* The metadata request of the completed call succeeded and its body
\* decoded.
MetadataOk ==
  /\ Fetched
  /\ last.repo.st = "fulfilled"
  /\ IsOk(last.repo.resp)
  /\ ~last.repo.resp.json.thrown

\* The readme path of the completed call failed: the request was rejected,
\* its status was not a success, its body did not decode, or no title could
\* be extracted from the content.
ReadmeFailed ==
  \/ last.readme.st = "rejected"
  \/ /\ last.readme.st = "fulfilled"
     /\ \/ ~IsOk(last.readme.resp)
        \/ last.readme.resp.json.thrown
        \/ last.readme.resp.json.value.content = ContentInvalid

\* C3: a failure in the readme path never makes fetchRepoData fail: when the
\* metadata request succeeds and its body decodes, the call returns the
\* metadata record with readmeTitle = null and stores it in the cache.
C3_ReadmeNeverFatal ==
  (MetadataOk /\ ReadmeFailed) =>
    /\ last.value = [last.repo.resp.json.value EXCEPT !.readmeTitle = Null]
    /\ last.key \in DOMAIN cache
    /\ cache[last.key].data = last.value

\* C4: fetchRepoData never raises: whatever the two requests and the
\* decoding of the bodies do, the call completes with a record or null.
C4_NeverRaises ==
  /\ Completed => ~last.thrown
  /\ pc = "fetched" =>
       /\ ~result.thrown
       /\ result.value = Null \/ "readmeTitle" \in DOMAIN result.value

\* C4 witness: a call whose metadata request was rejected and whose readme
\* body did not decode has returned null.
C4_Witness ==
  /\ pc = "fetched"
  /\ Fetched
  /\ last.repo.st = "rejected"
  /\ last.readme.st = "fulfilled"
  /\ last.readme.resp.json.thrown
  /\ result = Return(Null)

\* C5: on status 403 of the metadata request the call returns null, logs a
\* warning and no error, decodes no body and leaves the cache unchanged; on
\* any other non-success status it returns null and logs an error.
C5_StatusHandling ==
  (Fetched /\ last.repo.st = "fulfilled" /\ ~IsOk(last.repo.resp)) =>
    /\ last.value = Null
    /\ last.repo.resp.status = 403
         => /\ last.warns = 1
            /\ last.errors = 0
            /\ last.decodes = 0
            /\ cache = last.before
    /\ last.repo.resp.status # 403 => last.errors = 1

\* C6: the cache has an entry for a key only if a call for that key
\* returned a record, the payload is the record returned by the most recent
\* such call, and a call that returns null leaves the whole cache as it
\* found it.
C6_CacheFrame ==
  /\ \A k \in DOMAIN cache :
       /\ k \in DOMAIN prev
       /\ prev[k].lastOk # Null
       /\ cache[k].data = prev[k].lastOk
  /\ (Completed /\ last.value = Null) => cache = last.before

\* C6 witness: the refresh of an expired entry failed and the entry is
\* still there.
C6_Witness ==
  /\ HadEntry
  /\ Fetched
  /\ last.value = Null
  /\ last.key \in DOMAIN cache
  /\ cache[last.key] = FoundEntry

\* C7: a loading element is in a card only while that card waits for its
\* fetch; none remains in a card whose processing has ended, however the
\* fetch or the rendering ended.
C7_LoadingRemoved ==
  \A i \in 1..Len(cards) :
    HasLoading(dom[i].meta) => i = idx /\ pc \in {"awaiting", "fetched"}

\* C7 witness: a card with a stats container was processed, the rendering
\* threw after emptying the container, and no loading element is left.
C7_Witness ==
  \E i \in 1..Len(cards) :
    /\ i < idx
    /\ cards[i].hasMeta
    /\ dom[i].meta = <<>>
    /\ \E p \in 1..Len(events) : events[p] = <<i, "insert">>

\* The order of the events of one card.
Rank(name) ==
  CASE name = "insert" -> 1
    [] name = "fetchStart" -> 2
    [] name = "fetchEnd" -> 3
    [] name = "remove" -> 4
    [] name = "render" -> 5
    [] OTHER -> 6

Happened(i, name) == \E p \in 1..Len(events) : events[p] = <<i, name>>

\* C8: cards are processed in discovery order, one after the other, and
\* within a card the events come in the order insertion, fetch start, fetch
\* completion, removal, rendering; a card is never rendered while its
\* loading element is present.
C8_Ordering ==
  /\ \A p, q \in 1..Len(events) :
       p < q =>
         /\ events[p][1] <= events[q][1]
         /\ events[p][1] = events[q][1]
              => Rank(events[p][2]) < Rank(events[q][2])
  /\ \A i \in 1..Len(cards) :
       /\ Happened(i, "render") /\ Happened(i, "insert")
            => Happened(i, "remove")
       /\ Happened(i, "fetchEnd") => Happened(i, "fetchStart")
       /\ Happened(i, "remove") => Happened(i, "fetchEnd")
       /\ Happened(i, "render") => Happened(i, "fetchEnd")

\* C8 witness: the third card went through all five events after the
\* first two cards had ended.
C8_Witness ==
  /\ Happened(1, "end")
  /\ Happened(2, "end")
  /\ \A n \in {"insert", "fetchStart", "fetchEnd", "remove", "render"} :
       Happened(3, n)

\* The fetch for card last.card returned v and the processing of the card
\* has ended.
Processed == Completed /\ last.card < idx

\* C9: if the fetch returned null, the card is, when its processing ends,
\* as it was before init touched it.
C9_NullLeavesCard ==
  (Processed /\ last.value = Null) =>
    dom[last.card] = InitialDom(cards[last.card])

\* C9 witness: a card with a stats container whose fetch failed after the
\* loading element had been inserted.
C9_Witness ==
  /\ Processed
  /\ last.value = Null
  /\ cards[last.card].hasMeta
  /\ Happened(last.card, "insert")
  /\ Happened(last.card, "remove")

\* C10: if the fetch returned data, updateProjectCard was invoked on the
\* card with that data, so its title and description are updated.
C10_RenderWhenData ==
  (Processed /\ last.value # Null) =>
    /\ Happened(last.card, "render")
    /\ cards[last.card].hasTitle
         => dom[last.card].title = ProjectName(last.value)
    /\ cards[last.card].hasDesc
         => dom[last.card].desc # InitialDom(cards[last.card]).desc

\* What the processing of a card leaves in it, for the value its own fetch
\* returned: the card as rendered from the value, or the card as it was.
OwnOutcome(card, v) ==
  IF Truthy(v) /\ card.hasMeta
  THEN updateProjectCard(card, InitialDom(card), v).dom
  ELSE InitialDom(card)

\* Every card with a usable link has been processed to its end.
AllCardsEnded ==
  \A i \in 1..Len(cards) : Parses(cards[i]) => Happened(i, "end")

\* The step that ends the processing of the current card.
EndsCard == pc = "fetched" /\ pc' # "fetched"

\* C11: cards are processed independently.  However the fetch or the
\* rendering of a card ends, the step that ends its processing leaves in
\* it what the value returned by its own fetch determines and goes on to
\* the next card; a step changes the elements of the current card only;
\* and when init has returned every card with a usable link has been
\* processed to its end.
C11_Independent ==
  /\ [](pc = "done" => AllCardsEnded)
  /\ [][/\ \A i \in 1..Len(cards) : i # idx => dom'[i] = dom[i]
        /\ EndsCard =>
             /\ idx' = idx + 1
             /\ pc' = "loop"
             /\ dom'[idx] = OwnOutcome(cards[idx], result.value)]_vars

\* C11 witness: init has returned; the fetch of one card failed and left
\* the card as it was, the rendering of another threw, and a card after
\* both shows the stats of its own fetch.
C11_Witness ==
  /\ pc = "done"
  /\ \E i, j \in 1..Len(cards) :
       /\ i < j
       /\ cards[i].hasMeta /\ cards[j].hasMeta
       /\ Happened(i, "fetchEnd")
       /\ \/ ~Happened(i, "render") /\ dom[i] = InitialDom(cards[i])
          \/ Happened(i, "render") /\ dom[i].meta = <<>>
       /\ Happened(j, "render")
       /\ Len(dom[j].meta) = 1
       /\ dom[j].meta # <<OrigChild>>

\* How many times fetchRepoData was invoked for card i.
Invocations(i) ==
  Cardinality({p \in 1..Len(events) : events[p] = <<i, "fetchStart">>})

\* The step issues the metadata request, the readme request.
IssuesRepo == repoReq # Pending /\ repoReq' = Pending
IssuesReadme == readmeReq # Pending /\ readmeReq' = Pending

\* C12: no retries.  fetchRepoData is invoked at most once for a card;
\* a request is issued only by the step that invokes fetchRepoData for the
\* current card, for which it had not been invoked before, and that step
\* issues the two requests together; so an invocation issues each request
\* at most once and none is issued for a card after its fetch has ended.
C12_NoRetries ==
  /\ [](\A i \in 1..Len(cards) : Invocations(i) <= 1)
  /\ [][(IssuesRepo \/ IssuesReadme) =>
          /\ IssuesRepo /\ IssuesReadme
          /\ pc = "loop"
          /\ Invocations(idx) = 0
          /\ ~Happened(idx, "fetchEnd")
          /\ Invocations(idx)' = 1
          /\ idx' = idx]_vars

\* C12 witness: init has returned, the last fetch went to the network and
\* failed on a rejected metadata request, and fetchRepoData was invoked
\* once for its card.
C12_Witness ==
  /\ pc = "done"
  /\ Fetched
  /\ last.repo.st = "rejected"
  /\ last.value = Null
  /\ Invocations(last.card) = 1
  /\ repoReq = Idle /\ readmeReq = Idle

-----------------------------------------------------------------------------
(* parseGitHubUrl and the cache of fetchRepoData on their own: two links   *)
(* are parsed one after the other and the repository of each is fetched,  *)
(* the network answering with the record of the repository asked for.      *)

\* The tokens after "github.com/" in a link, and how many there are at most.
UrlTokens == {Slash, "a", "b"}
MaxUrlTail == 4

RECURSIVE SeqsUpTo(_, _)
SeqsUpTo(S, n) ==
  IF n = 0 THEN {<<>>}
  ELSE LET shorter == SeqsUpTo(S, n - 1)
       IN shorter \cup {Append(q, x) : q \in {r \in shorter : Len(r) = n - 1},
                                       x \in S}

KeyUrls == {<<HostMarker, Slash>> \o t : t \in SeqsUpTo(UrlTokens, MaxUrlTail)}

\* The record the service has for a repository.
PayloadOf(id) == [owner |-> id.owner, name |-> id.repo, readmeTitle |-> Null]

KeyInit ==
  /\ args \in KeyUrls \X KeyUrls
  /\ ret = <<>>
  /\ cards = <<>> /\ dom = <<>> /\ idx = 1 /\ pc = "loop" /\ cache = <<>>
  /\ now = 0 /\ ticks = 0 /\ call = NoCall /\ repoReq = Idle
  /\ readmeReq = Idle /\ result = NoResult /\ last = NoCall /\ prev = <<>>
  /\ events = <<>> /\ abandoned = {}

\* The link whose turn it is.
KeyTurn == args[Len(ret) + 1]

\* The link does not parse: nothing is fetched.
KeySkip ==
  /\ Len(ret) < Len(args)
  /\ parseGitHubUrl(KeyTurn) = Null
  /\ ret' = Append(ret, [id |-> Null, value |-> Null])
  /\ UNCHANGED <<runVars, args>>

\* fetchRepoData finds a valid entry under the key and returns its data.
KeyHit ==
  /\ Len(ret) < Len(args)
  /\ parseGitHubUrl(KeyTurn) # Null
  /\ LET id == parseGitHubUrl(KeyTurn)
         key == CacheKey(id.owner, id.repo)
     IN /\ CacheValid(cache, key, now)
        /\ ret' = Append(ret, [id |-> id, value |-> cache[key].data])
  /\ UNCHANGED <<runVars, args>>

\* fetchRepoData finds no valid entry, fetches the record and stores it.
KeyMiss ==
  /\ Len(ret) < Len(args)
  /\ parseGitHubUrl(KeyTurn) # Null
  /\ LET id == parseGitHubUrl(KeyTurn)
         key == CacheKey(id.owner, id.repo)
     IN /\ ~CacheValid(cache, key, now)
        /\ cache' = CacheSet(cache, key, PayloadOf(id), now)
        /\ ret' = Append(ret, [id |-> id, value |-> PayloadOf(id)])
  /\ UNCHANGED <<cards, dom, idx, pc, now, ticks, call, repoReq, readmeReq,
                 abandoned, result, last, prev, events, args>>

KeyNext ==
  \/ KeySkip
  \/ KeyHit
  \/ KeyMiss

KeySpec == KeyInit /\ [][KeyNext]_vars

\* C13: two identifier pairs that parseGitHubUrl gives and that differ in
\* owner or in name have different cache keys; the fetch for the later one
\* does not return the record of the earlier one and leaves the entry of
\* the earlier one as it was.
C13_KeysDistinct ==
  \A i, j \in 1..Len(ret) :
    (i < j /\ ret[i].id # Null /\ ret[j].id # Null /\ ret[i].id # ret[j].id)
      => LET ki == CacheKey(ret[i].id.owner, ret[i].id.repo)
             kj == CacheKey(ret[j].id.owner, ret[j].id.repo)
         IN /\ ki # kj
            /\ ret[j].value # ret[i].value
            /\ ret[j].value = PayloadOf(ret[j].id)
            /\ cache[ki].data = PayloadOf(ret[i].id)
            /\ cache[kj].data = PayloadOf(ret[j].id)

\* C13 witness: both links were fetched; their identifier pairs differ but
\* owner and name written one after the other give the same text.
C13_Witness ==
  /\ Len(ret) = 2
  /\ ret[1].id # Null /\ ret[2].id # Null
  /\ ret[1].id # ret[2].id
  /\ ret[1].id.owner \o ret[1].id.repo = ret[2].id.owner \o ret[2].id.repo
  /\ Cardinality(DOMAIN cache) = 2

-----------------------------------------------------------------------------
(* extractReadmeTitle on its own, and inside a fetch whose two requests     *)
(* succeed: README texts of a few lines, base64 as the service sends them.  *)

\* Lines a README may have, as character codes.
ReadmeLines ==
    {<<>>,   \* ""
     <<35>>,   \* "#"
     <<35, 32>>,   \* "# "
     <<35, 32, 32>>,   \* "#  "
     <<35, 32, 97>>,   \* "# a"
     <<35, 32, 32, 97, 32, 98, 32>>,   \* "#  a b "
     <<35, 97>>,   \* "#a"
     <<35, 35, 32, 97>>,   \* "## a"
     <<32, 35, 32, 97>>,   \* " # a"
     <<97>>,   \* "a"
     <<60, 104, 49, 62, 97, 60, 47, 104, 49, 62>>,   \* "<h1>a</h1>"
     <<60, 104, 49, 62, 32, 60, 47, 104, 49, 62>>,   \* "<h1> </h1>"
     <<60, 72, 49, 32, 105, 100, 61, 120, 62, 32, 98, 32, 60, 47, 72, 49, 62>>,   \* "<H1 id=x> b </H1>"
     <<60, 104, 49, 62, 97>>}   \* "<h1>a"

MaxLines == 2

\* The texts of at most n lines, the lines joined by "\n".
RECURSIVE TextsUpTo(_)
TextsUpTo(n) ==
  IF n = 1 THEN ReadmeLines
  ELSE TextsUpTo(n - 1)
         \cup {t \o <<10>> \o l : t \in TextsUpTo(n - 1), l \in ReadmeLines}

\* The base64 alphabet character of a sextet.
B64Char(v) ==
  IF v < 26 THEN v + 65
  ELSE IF v < 52 THEN v + 71
  ELSE IF v < 62 THEN v - 4
  ELSE IF v = 62 THEN 43
  ELSE 47

\* The content field of the README resource: the bytes in base64, padded.
RECURSIVE Base64Of(_)
Base64Of(b) ==
  IF Len(b) >= 3
  THEN LET n == b[1] * 65536 + b[2] * 256 + b[3]
       IN <<B64Char(n \div 262144), B64Char((n \div 4096) % 64),
            B64Char((n \div 64) % 64), B64Char(n % 64)>>
            \o Base64Of(SubSeq(b, 4, Len(b)))
  ELSE IF Len(b) = 2
  THEN LET n == (b[1] * 256 + b[2]) * 4
       IN <<B64Char(n \div 4096), B64Char((n \div 64) % 64),
            B64Char(n % 64), 61>>
  ELSE IF Len(b) = 1
  THEN <<B64Char(b[1] \div 4), B64Char((b[1] % 4) * 16), 61, 61>>
  ELSE <<>>

\* What readmeData.content can be.
Contents ==
  {Str(Base64Of(t)) : t \in TextsUpTo(MaxLines)}
    \cup {ContentInvalid, Null, Undefined}

\* The metadata record of the fetch.
TitleRepoBody == CHOOSE b \in RepoBodies : IsStr(b.name)
TitleKey == KeyOf(CardWidget)

TitleInit ==
  /\ args \in {[content |-> c] : c \in Contents}
  /\ ret = <<>>
  /\ cards = <<>> /\ dom = <<>> /\ idx = 1 /\ pc = "loop" /\ cache = <<>>
  /\ now = 0 /\ ticks = 0 /\ call = NoCall /\ repoReq = Idle
  /\ readmeReq = Idle /\ result = NoResult /\ last = NoCall /\ prev = <<>>
  /\ events = <<>> /\ abandoned = {}

\* extractReadmeTitle(content)
TitleExtract ==
  /\ ret = <<>>
  /\ ret' = [title |-> extractReadmeTitle(args.content)]
  /\ UNCHANGED <<runVars, args>>

\* fetchRepoData with both requests fulfilled with status 200, the README
\* body holding the content.
TitleFetch ==
  /\ ret = <<>>
  /\ LET out == fetchRepoDataResume(
                  Fulfilled(Response(200, Return(TitleRepoBody))),
                  Fulfilled(Response(200, Return(args))))
     IN /\ ret' = [value |-> out.value]
        /\ cache' = IF out.store
                    THEN CacheSet(cache, TitleKey, out.value, now)
                    ELSE cache
  /\ UNCHANGED <<cards, dom, idx, pc, now, ticks, call, repoReq, readmeReq,
                 abandoned, result, last, prev, events, args>>

TitleNext ==
  \/ TitleExtract
  \/ TitleFetch

TitleSpec == TitleInit /\ [][TitleNext]_vars

\* The call of extractReadmeTitle has returned, the fetch has returned.
Extracted == ret # <<>> /\ "title" \in DOMAIN ret
Returned == ret # <<>> /\ "value" \in DOMAIN ret

\* Null, or a string that is not empty and neither starts nor ends with
\* whitespace.
TitleOrNull(v) ==
  \/ v = Null
  \/ /\ IsStr(v)
     /\ Len(v.str) > 0
     /\ ~IsWs(v.str[1])
     /\ ~IsWs(v.str[Len(v.str)])

\* C14: readmeTitle is, in the record fetchRepoData returns and in every
\* cached payload, null or a non-empty string without leading or trailing
\* whitespace; never the empty string.
C14_TitleNeverEmpty ==
  /\ (Returned /\ ret.value # Null) => TitleOrNull(ret.value.readmeTitle)
  /\ \A k \in DOMAIN cache : TitleOrNull(cache[k].data.readmeTitle)

-----------------------------------------------------------------------------
(* parseGitHubUrl on its own, on every short string of tokens.             *)

ParseTokens == {HostMarker, Slash, "a"}
MaxUrlLen == 8

ParseInit ==
  /\ args \in SeqsUpTo(ParseTokens, MaxUrlLen)
  /\ ret = <<>>
  /\ cards = <<>> /\ dom = <<>> /\ idx = 1 /\ pc = "loop" /\ cache = <<>>
  /\ now = 0 /\ ticks = 0 /\ call = NoCall /\ repoReq = Idle
  /\ readmeReq = Idle /\ result = NoResult /\ last = NoCall /\ prev = <<>>
  /\ events = <<>> /\ abandoned = {}

\* parseGitHubUrl(url)
ParseCall ==
  /\ ret = <<>>
  /\ ret' = [value |-> parseGitHubUrl(args)]
  /\ UNCHANGED <<runVars, args>>

\* The caller reads the two fields of a result that is not null.
ParseRead ==
  /\ ret # <<>>
  /\ "value" \in DOMAIN ret
  /\ ret.value # Null
  /\ ret' = [owner |-> ret.value.owner, repo |-> ret.value.repo]
  /\ UNCHANGED <<runVars, args>>

ParseNext ==
  \/ ParseCall
  \/ ParseRead

ParseSpec == ParseInit /\ [][ParseNext]_vars

\* parseGitHubUrl has returned.
Parsed == ret # <<>> /\ "value" \in DOMAIN ret

\* The host marker "github.com/" is at position p of the string.
MarkerAt(url, p) ==
  p + 1 <= Len(url) /\ url[p] = HostMarker /\ url[p + 1] = Slash

\* Positions a..b hold a maximal run of characters other than "/".
SegmentAt(url, a, b) ==
  /\ a <= b /\ b <= Len(url)
  /\ \A i \in a..b : url[i] # Slash
  /\ b = Len(url) \/ url[b + 1] = Slash

\* "github.com/<owner>/<name>" is at position p: the marker, a segment,
\* a "/" and a segment, with the end of the string or a "/" after it.
PatternAt(url, p, b, c) ==
  /\ MarkerAt(url, p)
  /\ SegmentAt(url, p + 2, b)
  /\ b + 1 <= Len(url)
  /\ SegmentAt(url, b + 2, c)

HasPattern(url) ==
  \E p, b, c \in 1..Len(url) : PatternAt(url, p, b, c)

\* The first position with the marker, with the whole pattern.
FirstMarker(url) ==
  CHOOSE p \in 1..Len(url) :
    MarkerAt(url, p) /\ \A q \in 1..(p - 1) : ~MarkerAt(url, q)
FirstPattern(url) ==
  CHOOSE p \in 1..Len(url) :
    /\ \E b, c \in 1..Len(url) : PatternAt(url, p, b, c)
    /\ \A q \in 1..(p - 1) : ~\E b, c \in 1..Len(url) : PatternAt(url, q, b, c)

\* The characters from position a up to the next "/" or the end (none if a
\* "/" is at a), and the position after them.
SegmentEnd(url, a) ==
  CHOOSE e \in (a - 1)..Len(url) :
    /\ \A i \in a..e : url[i] # Slash
    /\ e = Len(url) \/ url[e + 1] = Slash
SegmentFrom(url, a) == SubSeq(url, a, SegmentEnd(url, a))

\* The result is the two segments after the marker at p.
TwoSegmentsAfter(url, p, v) ==
  /\ v # Null
  /\ v.owner = SegmentFrom(url, p + 2)
  /\ v.repo = SegmentFrom(url, SegmentEnd(url, p + 2) + 2)

\* C15 as stated: null for a string without the marker; for a string that
\* holds the pattern, the two segments after the first marker.
C15_AsStated ==
  Parsed =>
    /\ (~\E p \in 1..Len(args) : MarkerAt(args, p)) => ret.value = Null
    /\ HasPattern(args) =>
         TwoSegmentsAfter(args, FirstMarker(args), ret.value)

\* C15 amended: null for a string without the marker; for a string that
\* holds the pattern, the two segments after the marker of the first
\* occurrence of the pattern, which are not empty and are followed by a
\* "/" or the end of the string.
C15_FirstPattern ==
  Parsed =>
    /\ (~\E p \in 1..Len(args) : MarkerAt(args, p)) => ret.value = Null
    /\ HasPattern(args) =>
         /\ TwoSegmentsAfter(args, FirstPattern(args), ret.value)
         /\ ret.value.owner # <<>> /\ ret.value.repo # <<>>

\* C15 witness: the first marker of the string is not followed by two
\* segments, a later one is, and a result came back.
C15_Witness ==
  /\ Parsed
  /\ HasPattern(args)
  /\ FirstMarker(args) < FirstPattern(args)
  /\ ret.value # Null

-----------------------------------------------------------------------------
(* formatNumber on its own: the counts a repository may have.              *)

\* The multiples of 50 up to 50 * MaxFifties, where the ties of the `k`
\* range are, and counts around the two thresholds and in the `M` range.
MaxFifties == 60

FormatInputs ==
  {50 * k : k \in 0..MaxFifties}
    \cup {7, 950, 999, 1234, 999949, 999950, 999999, 1000000, 1049999,
          1050000, 1150000, 1234567, 1250000, 12345678}

FormatInit ==
  /\ args \in {Num(n) : n \in FormatInputs}
  /\ ret = <<>>
  /\ cards = <<>> /\ dom = <<>> /\ idx = 1 /\ pc = "loop" /\ cache = <<>>
  /\ now = 0 /\ ticks = 0 /\ call = NoCall /\ repoReq = Idle
  /\ readmeReq = Idle /\ result = NoResult /\ last = NoCall /\ prev = <<>>
  /\ events = <<>> /\ abandoned = {}

\* formatNumber(num)
FormatCall ==
  /\ ret = <<>>
  /\ ret' = formatNumber(args)
  /\ UNCHANGED <<runVars, args>>

FormatNext == FormatCall

FormatSpec == FormatInit /\ [][FormatNext]_vars

\* n / d in tenths, rounded half-up.
HalfUpTenths(n, d) == (20 * n + d) \div (2 * d)

\* Tenths written with one fractional digit.
OneDigit(t) == ToString(t \div 10) \o "." \o ToString(t % 10)

\* C16: formatNumber(n) is the decimal text of n below 1000, n / 1000
\* rounded half-up to one fractional digit with `k` from 1000 to 999999,
\* n / 1000000 rounded half-up to one fractional digit with `M` from
\* 1000000 on; a trailing `.0` is kept.
C16_HalfUp ==
  ret # <<>> =>
    /\ ~ret.thrown
    /\ ret.value =
         IF args.num < 1000 THEN ToString(args.num)
         ELSE IF args.num < 1000000
         THEN OneDigit(HalfUpTenths(args.num, 1000)) \o "k"
         ELSE OneDigit(HalfUpTenths(args.num, 1000000)) \o "M"

-----------------------------------------------------------------------------
(* The two requests of a call and the calls of a run.                      *)

\* C17: the two requests of a call are issued together, and fetchRepoData
\* goes on after the joint await (inspects the status, writes the cache,
\* returns) only when both have settled, whichever settles first.
C17_JointAwait ==
  /\ repoReq = Idle <=> readmeReq = Idle
  /\ pc = "fetched" => repoReq # Pending /\ readmeReq # Pending
  /\ Fetched => last.repo # Pending /\ last.readme # Pending

-----------------------------------------------------------------------------
(* The title extractReadmeTitle returns, against the lines of the text.    *)

\* The text the content decodes to.
DecodedText == atob(args.content).value

\* A line starts at position p.
LineStartAt(t, p) == p = 1 \/ IsLineTerminator(t[p - 1])

\* What follows the `#` at p up to the end of its line.
RestOfLine(t, p) == SubSeq(t, p + 1, SpanEnd(t, p + 1, {10, 13}))

\* The line starting at p begins with one `#` followed by whitespace of
\* that line.  A line with nothing but whitespace after the `#` counts as
\* a heading when blankToo holds.
HeadingLineAt(t, p, blankToo) ==
  /\ LineStartAt(t, p)
  /\ p + 1 <= Len(t)
  /\ t[p] = 35
  /\ IsWs(t[p + 1]) /\ ~IsLineTerminator(t[p + 1])
  /\ blankToo \/ Trim(RestOfLine(t, p)) # <<>>

\* The title as the claim gives it.
TitleByLines(t, blankToo) ==
  LET hs == {p \in 1..Len(t) : HeadingLineAt(t, p, blankToo)}
      es == {p \in 1..Len(t) : H1MatchAt(t, p)}
  IN IF hs # {}
     THEN Str(Trim(RestOfLine(t, CHOOSE p \in hs : \A q \in hs : p <= q)))
     ELSE IF es # {}
     THEN Str(Trim(H1Capture(t, CHOOSE p \in es : \A q \in es : p <= q)))
     ELSE Null

\* C18: extractReadmeTitle returns the trimmed remainder of the first line
\* that begins with exactly one `#` followed by whitespace (a title from
\* that line, never from a later one, and before any <h1> element);
\* otherwise the trimmed inner text of the first <h1> element; otherwise
\* null.  Whether a `#` with only whitespace after it is a heading is left
\* open: the title may be the one got with such lines counted or the one
\* got with them passed over.
C18_TitleFromHeadingLine ==
  (Extracted /\ ~atob(args.content).thrown) =>
    \/ ret.title = TitleByLines(DecodedText, TRUE)
    \/ ret.title = TitleByLines(DecodedText, FALSE)

\* The cards whose call of fetchRepoData has started and not returned.
CallsInFlight ==
  {i \in 1..Len(cards) :
     Happened(i, "fetchStart") /\ ~Happened(i, "fetchEnd")}

\* The requests of the call in flight that have not settled.
RequestsOfCall ==
  {[key |-> call.key, req |-> r] :
     r \in {q \in {"repo"} : call # NoCall /\ repoReq = Pending}
            \cup {q \in {"readme"} : call # NoCall /\ readmeReq = Pending}}

\* C19: within an init run at most one call of fetchRepoData is in flight
\* at any moment, so no request of an earlier call is in flight together
\* with a request of the current call for the same key, and the cache
\* holds no entry written after the call in flight read it.
C19_OneCallInFlight ==
  /\ Cardinality(CallsInFlight) <= 1
  /\ \A a \in abandoned, b \in RequestsOfCall : a.key # b.key
  /\ pc = "awaiting" =>
       \A k \in DOMAIN cache : cache[k].timestamp <= call.start

\* The completed call went to the network and its fetch failed: a request
\* was rejected, or the metadata response had a non-success status or a
\* body that did not decode.
RefreshFailed ==
  /\ Fetched
  /\ \/ last.repo = Rejected
     \/ last.readme = Rejected
     \/ /\ last.repo.st = "fulfilled"
        /\ ~IsOk(last.repo.resp) \/ last.repo.resp.json.thrown

\* The entry the completed call found was expired when the call started.
FoundExpired ==
  HadEntry /\ last.start >= FoundEntry.timestamp + cacheExpiry

\* The call for the same key before the completed one was a refresh of the
\* entry, already expired then, and it failed.
AfterFailedRefresh ==
  /\ HadEntry
  /\ last.prior # NoPrior
  /\ ~last.prior.hit
  /\ last.prior.value = Null
  /\ last.prior.start >= FoundEntry.timestamp + cacheExpiry

\* C20: no stale-on-error.  When the refresh of an expired entry fails,
\* fetchRepoData returns null and the entry stays as it was, old timestamp
\* included; and no call returns an entry that is expired when the call
\* starts, so with a clock that never goes back the entry is not returned
\* by a call after the failed refresh either.
C20_NoStaleOnError ==
  /\ (FoundExpired /\ RefreshFailed) =>
       /\ last.value = Null
       /\ last.key \in DOMAIN cache
       /\ cache[last.key] = FoundEntry
  /\ FoundExpired => ~last.hit
  /\ AfterFailedRefresh => ~last.hit

\* C20 witness: the refresh of an expired entry failed, the next call for
\* the key found the entry still there and went to the network again.
C20_Witness ==
  /\ AfterFailedRefresh
  /\ Fetched
  /\ last.key \in DOMAIN cache

====
